---- MODULE Spec2Model ----
(***************************************************************************)
(* Model of usrp3/tools/scripts/uhd_image_builder.py.                      *)
(*                                                                         *)
(* Text is modelled as a sequence of tokens.  A token is a TLA+ string     *)
(* standing for a fixed piece of text ("fft", "inst_", "2", ...);          *)
(* concatenation of text is concatenation of token sequences.  The token   *)
(* sets used below are prefix codes, so two token sequences are equal      *)
(* exactly when the texts they stand for are equal.                        *)
(***************************************************************************)
EXTENDS Integers, Sequences, FiniteSets, TLC

VARIABLES
    \* ---- main / create_auto_inst / file_generator
    pc,               \* position of main(): the call it is about to make
    exit_code,        \* -1 while running, else the code passed to exit()
    stdout,           \* what has been printed, in order
    blocks,           \* args.blocks: the request list
    max_num_blocks,   \* args.max_num_blocks
    fill_with_fifos,  \* args.fill_with_fifos
    vfile,            \* the Verilog source returned by create_auto_inst
    auto_inst_file,   \* the rfnoc_ce_auto_inst_<device>.v file on disk
    auto_inst_pre,    \* its content when the run started (never assigned)
    \* ---- append_re_line_sequence
    patch_file,       \* content of the file at 'filename'
    patch_hist,       \* its content before each call made so far
    linepattern,      \* the anchor, a regular expression
    newline,          \* the payload
    \* ---- create_oot_include
    include_dirs,     \* args.include_dir: None, or the directory references
    fs_dirs,          \* the directories that exist
    fs_files,         \* the regular files that exist
    oot_dir_list,     \* oot_dir_list
    oot_i,            \* index of the reference the for loop is at
    incfile,          \* the Makefile.OOT.inc file on disk
    incfile_pre,      \* its content when the run started (never assigned)
    \* ---- append_item_into_file
    src_include_dir,  \* include_dir: None, or the directory references
    oot_srcs_file,    \* content of <directory>/Makefile.srcs
    verilog_dirs,     \* the directories that hold *.v files
    manifest,         \* the top/<target>/Makefile.srcs file on disk
    manifest_hist,    \* its content before each call made so far
    src_exit          \* -1, or the code the last call passed to exit()

genVars == <<pc, exit_code, stdout, blocks, max_num_blocks, fill_with_fifos,
             vfile, auto_inst_file, auto_inst_pre>>
patchVars == <<patch_file, patch_hist, linepattern, newline>>
ootVars == <<include_dirs, fs_dirs, fs_files, oot_dir_list, oot_i, incfile,
             incfile_pre>>
srcVars == <<src_include_dir, oot_srcs_file, verilog_dirs, manifest,
             manifest_hist, src_exit>>
vars == <<genVars, patchVars, ootVars, srcVars>>

-----------------------------------------------------------------------------
(* Bounds of the model.                                                    *)

\* longest request list
MaxBlocks == 3
\* largest crossbar capacity
MaxCap == 3

-----------------------------------------------------------------------------
(* Generic helpers.                                                        *)

Range(s) == {s[i] : i \in 1..Len(s)}

SeqsUpTo(S, n) == UNION {[1..k -> S] : k \in 0..n}

Min(a, b) == IF a < b THEN a ELSE b

\* str() of a non-negative integer, as used by "{}".format(count)
Digits == <<"0", "1", "2", "3", "4", "5", "6", "7", "8", "9">>

RECURSIVE DecStr(_)
DecStr(n) == IF n < 10 THEN <<Digits[n + 1]>>
             ELSE DecStr(n \div 10) \o <<Digits[(n % 10) + 1]>>

\* A file on disk: absent, or present with a content
NoFile == [exists |-> FALSE, data |-> <<>>]
FileOf(data) == [exists |-> TRUE, data |-> data]

-----------------------------------------------------------------------------
(* create_auto_inst                                                        *)

BLACKLIST == {<<"radio_core">>, <<"axi_dma_fifo">>}

\* get_default_parameters(): main() hands one such record per block
get_default_parameters == [clock |-> "ce", parameters |-> "None",
                           extraports |-> "None"]

\* One formatted template of the generated text.  n is num_ce for the
\* header, the port index for a block and fifo_start for the filler.
Chunk(tmpl, blockname, instname, n, clock) ==
    [tmpl |-> tmpl, blockname |-> blockname, instname |-> instname,
     n |-> n, clock |-> clock]

HEADER_TMPL(num_ce) == Chunk("HEADER_TMPL", <<>>, <<>>, num_ce, "")

BLOCK_TMPL(blockname, instname, n, clock) ==
    Chunk("BLOCK_TMPL", blockname, instname, n, clock)

\* FILL_FIFO_TMPL with the generate loop starting at 0
FILL_FIFO_TMPL_FromZero(fifo_start) == Chunk("FILL_FIFO_TMPL", <<>>, <<>>, 0, "")

FILL_FIFO_TMPL(fifo_start) == Chunk("FILL_FIFO_TMPL", <<>>, <<>>, fifo_start, "")

\* NumCe without the fill_with_fifos test
NumCeAlwaysMax(blks, max, fill) == max

\* num_ce = max_num_blocks; if not fill_with_fifos: num_ce = len(blocks)
NumCe(blks, max, fill) == IF ~fill THEN Len(blks) ELSE max

\* blocks_in_blacklist with an empty BLACKLIST
NoneInBlacklist(blks) == <<>>

\* [block for block in blocks if block in BLACKLIST]
blocks_in_blacklist(blks) == SelectSeq(blks, LAMBDA b : b \in BLACKLIST)

\* InstName with the test count <= 2 in place of count == 1
InstNameNoSuffixAtTwo(block, count) ==
    <<"inst_">> \o block \o (IF count <= 2 THEN <<>> ELSE DecStr(count))

\* "inst_{}{}".format(block, "" if count == 1 else count)
InstName(block, count) ==
    <<"inst_">> \o block \o (IF count = 1 THEN <<>> ELSE DecStr(count))

\* The for loop over enumerate(zip(blocks, blockparams)); i is the 0-based
\* index, block_count the dictionary, acc the text and prints so far.
RECURSIVE InstLoop(_, _, _, _, _)
InstLoop(blks, blockparams, i, block_count, acc) ==
    IF i >= Min(Len(blks), Len(blockparams)) THEN acc
    ELSE LET block == blks[i + 1]
             params == blockparams[i + 1]
             count == block_count[block] + 1
             instname == InstName(block, count)
         IN InstLoop(blks, blockparams, i + 1,
                     [block_count EXCEPT ![block] = count],
                     [text |-> Append(acc.text,
                                      BLOCK_TMPL(block, instname, i, params.clock)),
                      out |-> Append(acc.out, <<"    * ", block>>)])

\* The result of the call: exit = -1 and the text when it returns, else
\* the code given to exit(); out is what it printed.
create_auto_inst(blks, blockparams, max, fill) ==
    IF Len(blks) = 0
    THEN [exit |-> 1, text |-> <<>>,
          out |-> << <<"[GEN_RFNOC_INST ERROR] No blocks specified!", <<>> >> >>]
    ELSE IF Len(blks) > max
    THEN [exit |-> 1, text |-> <<>>,
          out |-> << <<"[GEN_RFNOC_INST ERROR] Trying to connect", <<>> >> >>]
    ELSE LET num_ce == NumCe(blks, max, fill)
             header == <<HEADER_TMPL(num_ce)>>
             black == blocks_in_blacklist(blks)
         IN IF Len(black) # 0
            THEN [exit |-> 0, text |-> <<>>,
                  out |-> << <<"[RFNoC ERROR]", <<>> >> >>
                          \o [j \in 1..Len(black) |-> <<" * ", black[j]>>]
                          \o << <<"Remove them", <<>> >> >>]
            ELSE LET block_count == [k \in Range(blks) |-> 0]
                     body == InstLoop(blks, blockparams, 0, block_count,
                                 [text |-> header,
                                  out |-> << <<"--Using the following blocks", <<>> >> >>])
                 IN [exit |-> -1,
                     text |-> IF fill THEN body.text \o <<FILL_FIFO_TMPL(Len(blks))>>
                              ELSE body.text,
                     out |-> body.out]

-----------------------------------------------------------------------------
(* main(), positional-argument path: lines 519-525                         *)

\* params = [get_default_parameters()]*len(blocks)
DefaultParams(blks) == [i \in 1..Len(blks) |-> get_default_parameters]

\* vfile = create_auto_inst(blocks, params, max_num_blocks, fill_with_fifos)
MainCreateAutoInst ==
    /\ pc = "create_auto_inst"
    /\ LET r == create_auto_inst(blocks, DefaultParams(blocks), max_num_blocks,
                                 fill_with_fifos)
       IN /\ stdout' = stdout \o r.out
          /\ IF r.exit # -1
             THEN /\ pc' = "exit"
                  /\ exit_code' = r.exit
                  /\ vfile' = vfile
             ELSE /\ pc' = "file_generator"
                  /\ exit_code' = exit_code
                  /\ vfile' = r.text
    /\ UNCHANGED <<blocks, max_num_blocks, fill_with_fifos, auto_inst_file,
                   auto_inst_pre>>
    /\ UNCHANGED <<patchVars, ootVars, srcVars>>

\* file_generator(args, vfile): open(path, 'w').write(vfile)
file_generator ==
    /\ pc = "file_generator"
    /\ auto_inst_file' = FileOf(vfile)
    /\ stdout' = Append(stdout, <<"Adding CE instantiation file", <<>> >>)
    /\ pc' = "create_oot_include"
    /\ UNCHANGED <<exit_code, blocks, max_num_blocks, fill_with_fifos, vfile,
                   auto_inst_pre>>
    /\ UNCHANGED <<patchVars, ootVars, srcVars>>

\* The patch engine is not part of a run of main()
PatchIdle ==
    /\ patch_file = <<>>
    /\ patch_hist = <<>>
    /\ linepattern = <<>>
    /\ newline = <<>>

\* The registrar has not been called
OotIdle ==
    /\ include_dirs = [none |-> TRUE, dirs |-> <<>>]
    /\ fs_dirs = {}
    /\ fs_files = {}
    /\ oot_dir_list = <<>>
    /\ oot_i = 0
    /\ incfile = NoFile
    /\ incfile_pre = NoFile

\* append_item_into_file has not been called
SrcIdle ==
    /\ src_include_dir = [none |-> TRUE, dirs |-> <<>>]
    /\ oot_srcs_file = <<>>
    /\ verilog_dirs = {}
    /\ manifest = <<>>
    /\ manifest_hist = <<>>
    /\ src_exit = -1

\* Block names of the model: two ordinary names, a name ending in a digit,
\* and the two reserved names.
BlockNames == {<<"fft">>, <<"fft", "2">>, <<"fir">>} \cup BLACKLIST

\* What the file holds before a run: nothing, or an earlier run's output
OldVfile == create_auto_inst(<< <<"fir">> >>, DefaultParams(<< <<"fir">> >>), 1, FALSE).text

InitGen ==
    /\ pc = "create_auto_inst"
    /\ exit_code = -1
    /\ stdout = <<>>
    /\ blocks \in SeqsUpTo(BlockNames, MaxBlocks)
    /\ max_num_blocks \in 1..MaxCap
    /\ fill_with_fifos \in BOOLEAN
    /\ vfile = <<>>
    /\ auto_inst_file \in {NoFile, FileOf(OldVfile)}
    /\ auto_inst_pre = auto_inst_file
    /\ PatchIdle
    /\ OotIdle
    /\ SrcIdle

NextGen == MainCreateAutoInst \/ file_generator

SpecGen == InitGen /\ [][NextGen]_vars

-----------------------------------------------------------------------------
(* Properties of the instantiation generator, checked under SpecGen.       *)

\* main() is past create_auto_inst, which returned a text
Generated == pc \in {"file_generator", "create_oot_include"}

\* The request list holds one of the two reserved names
HasReserved ==
    \E i \in 1..Len(blocks) : blocks[i] \in {<<"radio_core">>, <<"axi_dma_fifo">>}

Rejected == Len(blocks) = 0 \/ Len(blocks) > max_num_blocks \/ HasReserved

\* The BLOCK_TMPL instantiations of a text, in the order they were emitted
BlockChunks(text) == SelectSeq(text, LAMBDA c : c.tmpl = "BLOCK_TMPL")

\* Number of occurrences of blocks[i] in blocks[1..i]
Occurrences(i) == Cardinality({j \in 1..i : blocks[j] = blocks[i]})

\* C1: an empty request list, one longer than the capacity, or one with a
\* reserved name makes the run exit in create_auto_inst, and the
\* interconnect file keeps the content (or absence) it had before the run.
C1_RejectedLeavesFile ==
    Rejected => /\ auto_inst_file = auto_inst_pre
                /\ pc \in {"create_auto_inst", "exit"}
                /\ (pc = "exit" => exit_code \in {0, 1})

C1_Witness ==
    /\ pc = "exit"
    /\ HasReserved
    /\ Len(blocks) <= max_num_blocks
    /\ auto_inst_file = auto_inst_pre
    /\ auto_inst_pre = FileOf(OldVfile)

\* C2 as stated: the instance name of request i is the block name b when b
\* occurs once in R[0..i], and b followed by the occurrence count k when
\* k >= 2.
C2_NameIsBlockPlusCount ==
    Generated =>
        /\ Len(BlockChunks(vfile)) = Len(blocks)
        /\ \A i \in 1..Len(blocks) :
              BlockChunks(vfile)[i].instname =
                  blocks[i] \o (IF Occurrences(i) = 1 THEN <<>>
                                ELSE DecStr(Occurrences(i)))

\* C2 amended: the instance name of request i is "inst_" followed by the
\* block name b, followed by the occurrence count k of b in R[0..i] when
\* k >= 2 (fft, fft, fft gives inst_fft, inst_fft2, inst_fft3).
C2_NameIsInstBlockPlusCount ==
    Generated =>
        /\ Len(BlockChunks(vfile)) = Len(blocks)
        /\ \A i \in 1..Len(blocks) :
              BlockChunks(vfile)[i].instname =
                  <<"inst_">> \o blocks[i] \o (IF Occurrences(i) = 1 THEN <<>>
                                               ELSE DecStr(Occurrences(i)))

C2_Witness ==
    /\ pc = "create_oot_include"
    /\ blocks = << <<"fft">>, <<"fft">>, <<"fft">> >>
    /\ BlockChunks(auto_inst_file.data)[3].instname = <<"inst_", "fft", "3">>

\* C3: the instance names emitted by one run are pairwise distinct.
C3_InstanceNamesDistinct ==
    Generated =>
        \A i, j \in 1..Len(BlockChunks(vfile)) :
            i # j => BlockChunks(vfile)[i].instname # BlockChunks(vfile)[j].instname

\* The crossbar indices a chunk of the text binds, given the declared
\* NUM_CE: a block binds its index n, the filler's generate loop binds
\* every n with fifo_start <= n < NUM_CE.
BoundBy(c, num_ce) ==
    IF c.tmpl = "BLOCK_TMPL" THEN {c.n}
    ELSE IF c.tmpl = "FILL_FIFO_TMPL" THEN {n \in 0..(num_ce - 1) : c.n <= n}
    ELSE {}

\* The declared slot count: localparam NUM_CE of the header
DeclaredNumCe(text) == text[1].n

\* The chunks of the text that bind index n
Binders(text, n) ==
    {k \in 1..Len(text) : n \in BoundBy(text[k], DeclaredNumCe(text))}

\* C4: the declared slot count is the capacity when fill is set and
\* len(R) otherwise; every index below it is bound exactly once, index
\* i < len(R) by request i in request order and every later index by the
\* loopback filler; nothing is bound outside [0, N).
C4_SlotsBoundOnce ==
    Generated =>
        LET N == DeclaredNumCe(vfile) IN
        /\ vfile[1].tmpl = "HEADER_TMPL"
        /\ N = (IF fill_with_fifos THEN max_num_blocks ELSE Len(blocks))
        /\ \A k \in 1..Len(vfile) : BoundBy(vfile[k], N) \subseteq 0..(N - 1)
        /\ \A n \in 0..(N - 1) :
              /\ Cardinality(Binders(vfile, n)) = 1
              /\ LET c == vfile[CHOOSE k \in Binders(vfile, n) : TRUE] IN
                 IF n < Len(blocks)
                 THEN /\ c.tmpl = "BLOCK_TMPL"
                      /\ c.blockname = blocks[n + 1]
                      /\ c = BlockChunks(vfile)[n + 1]
                 ELSE c.tmpl = "FILL_FIFO_TMPL"

C4_Witness ==
    /\ pc = "create_oot_include"
    /\ fill_with_fifos
    /\ Len(blocks) = 2
    /\ max_num_blocks = Len(blocks) + 1
    /\ auto_inst_file = FileOf(vfile)
    /\ Binders(vfile, 2) = {4}

-----------------------------------------------------------------------------
(* append_re_line_sequence: the file patch engine.                         *)
(*                                                                         *)
(* Here a token is one character.  The regular expressions of re.findall  *)
(* are modelled for patterns made of literal characters, "." (any          *)
(* character but a line break) and "$" (with re.MULTILINE: the end of the *)
(* text or the place before a line break, matching no character).          *)

\* longest file content
MaxContent == 3
\* longest payload
MaxPayload == 2
\* longest anchor pattern
MaxPattern == 1
\* calls made on one file
MaxCalls == 2

Chars == {"a", "b", "\n", "$", "."}

\* Matches pattern[k..] against text s from position i (1-based, Len(s)+1
\* is the end): the position after the match, or 0 when there is none.
RECURSIVE MatchAt(_, _, _, _)
MatchAt(pattern, k, s, i) ==
    IF k > Len(pattern) THEN i
    ELSE IF pattern[k] = "$"
    THEN IF i = Len(s) + 1 \/ s[i] = "\n"
         THEN MatchAt(pattern, k + 1, s, i) ELSE 0
    ELSE IF pattern[k] = "."
    THEN IF i <= Len(s) /\ s[i] # "\n"
         THEN MatchAt(pattern, k + 1, s, i + 1) ELSE 0
    ELSE IF i <= Len(s) /\ s[i] = pattern[k]
         THEN MatchAt(pattern, k + 1, s, i + 1) ELSE 0

\* The spans <<start, end>> (end exclusive) of the non-overlapping matches
\* of the pattern, scanning from position i; an empty match moves the scan
\* on by one character.
RECURSIVE MatchSpans(_, _, _)
MatchSpans(pattern, s, i) ==
    IF i > Len(s) + 1 THEN <<>>
    ELSE LET e == MatchAt(pattern, 1, s, i) IN
         IF e = 0 THEN MatchSpans(pattern, s, i + 1)
         ELSE << <<i, e>> >> \o MatchSpans(pattern, s, IF e = i THEN i + 1 ELSE e)

\* re.findall(pattern, s, flags=re.MULTILINE): the matched texts
re_findall(pattern, s) ==
    LET spans == MatchSpans(pattern, s, 1)
    IN [j \in 1..Len(spans) |-> SubSeq(s, spans[j][1], spans[j][2] - 1)]

\* str.replace(old, new): every non-overlapping occurrence of old, from the
\* left; an empty old stands before every character and at the end.
RECURSIVE ReplaceFrom(_, _, _, _)
ReplaceFrom(s, old, new, i) ==
    IF i > Len(s) THEN (IF old = <<>> THEN new ELSE <<>>)
    ELSE IF old = <<>> THEN new \o <<s[i]>> \o ReplaceFrom(s, old, new, i + 1)
    ELSE IF i + Len(old) - 1 <= Len(s) /\ SubSeq(s, i, i + Len(old) - 1) = old
    THEN new \o ReplaceFrom(s, old, new, i + Len(old))
    ELSE <<s[i]>> \o ReplaceFrom(s, old, new, i + 1)

str_replace(s, old, new) == ReplaceFrom(s, old, new, 1)

\* The file content the call leaves, from the content it reads
append_re_line_sequence(oldfile, pattern, payload) ==
    LET lines == re_findall(payload, oldfile) IN
    IF Len(lines) # 0 THEN oldfile
    ELSE LET pattern_lines == re_findall(pattern, oldfile) IN
         IF Len(pattern_lines) = 0 THEN oldfile \o payload
         ELSE LET last_line == pattern_lines[Len(pattern_lines)]
              IN str_replace(oldfile, last_line, last_line \o payload \o <<"\n">>)

\* One call append_re_line_sequence(filename, linepattern, newline)
AppendReLineSequence ==
    /\ Len(patch_hist) < MaxCalls
    /\ patch_hist' = Append(patch_hist, patch_file)
    /\ patch_file' = append_re_line_sequence(patch_file, linepattern, newline)
    /\ UNCHANGED <<linepattern, newline>>
    /\ UNCHANGED <<genVars, ootVars, srcVars>>

\* No run of main() is in progress
GenIdle ==
    /\ pc = "idle"
    /\ exit_code = -1
    /\ stdout = <<>>
    /\ blocks = <<>>
    /\ max_num_blocks = 1
    /\ fill_with_fifos = FALSE
    /\ vfile = <<>>
    /\ auto_inst_file = NoFile
    /\ auto_inst_pre = NoFile

InitPatch ==
    /\ patch_file \in SeqsUpTo(Chars, MaxContent)
    /\ patch_hist = <<>>
    /\ linepattern \in SeqsUpTo(Chars, MaxPattern) \ {<<>>}
    /\ newline \in SeqsUpTo(Chars, MaxPayload) \ {<<>>}
    /\ GenIdle
    /\ OotIdle
    /\ SrcIdle

NextPatch == AppendReLineSequence

SpecPatch == InitPatch /\ [][NextPatch]_vars

-----------------------------------------------------------------------------
(* Properties of the patch engine, checked under SpecPatch.                *)

\* The payload occurs verbatim in the text
OccursIn(payload, s) ==
    \E i \in 1..(Len(s) - Len(payload) + 1) :
        SubSeq(s, i, i + Len(payload) - 1) = payload

\* C5: applying the patch twice with the same anchor and payload leaves
\* the file as one application left it.
C5_SecondCallIsNoOp ==
    Len(patch_hist) = 2 => patch_file = patch_hist[2]

\* C6: when the payload is not yet present and the anchor matches, one
\* call leaves the content with one copy of the payload right after the
\* last match's span and everything else unchanged; no copy follows an
\* earlier match.  Read in the code's favour: the payload counts as not
\* present only when neither the text nor the code's own test finds it,
\* and the inserted copy may carry the line break that ends it.
C6_InsertedAfterLastMatchOnly ==
    LET orig == patch_hist[1]
        after == IF Len(patch_hist) = 1 THEN patch_file ELSE patch_hist[2]
        spans == MatchSpans(linepattern, orig, 1)
        last == spans[Len(spans)]
    IN (/\ Len(patch_hist) >= 1
        /\ ~OccursIn(newline, orig)
        /\ Len(re_findall(newline, orig)) = 0
        /\ Len(spans) >= 1)
       => \E eol \in {<<>>, <<"\n">>} :
             after = SubSeq(orig, 1, last[2] - 1) \o newline \o eol
                     \o SubSeq(orig, last[2], Len(orig))

-----------------------------------------------------------------------------
(* create_oot_include: the OOT registrar.                                  *)
(*                                                                         *)
(* A path is the sequence of its components below the root.  The common   *)
(* prefix of get_relative_path is taken by components: the directory      *)
(* names of the model share no leading characters with those of the base  *)
(* directory, so the character-wise os.path.commonprefix of the code is   *)
(* the same prefix.  The device is a known one (file_generator has looked *)
(* it up in device_dict before this function is called).                  *)

\* longest list of directory references
MaxRefs == 2

\* os.getcwd(), get_scriptpath() and get_basedir()
Cwd == <<"oot">>
ScriptPath == <<"usrp3", "tools", "scripts">>

\* os.path.normpath on components: "." is dropped, ".." removes the
\* component before it
RECURSIVE NormFrom(_, _, _)
NormFrom(p, i, acc) ==
    IF i > Len(p) THEN acc
    ELSE IF p[i] = "." THEN NormFrom(p, i + 1, acc)
    ELSE IF p[i] = ".."
    THEN NormFrom(p, i + 1, IF acc = <<>> THEN acc ELSE SubSeq(acc, 1, Len(acc) - 1))
    ELSE NormFrom(p, i + 1, Append(acc, p[i]))

normpath(p) == NormFrom(p, 1, <<>>)

\* os.path.abspath of a reference given relative to the working directory
abspath(ref) == normpath(Cwd \o ref)

get_basedir == normpath(ScriptPath \o <<"..", "..", "top">>)

basename(p) == IF p = <<>> THEN "" ELSE p[Len(p)]

isdir(p) == p \in fs_dirs

isfile(p) == p \in fs_files

\* The text of an absolute path
RECURSIVE PathText(_)
PathText(p) == IF p = <<>> THEN <<>>
               ELSE PathText(SubSeq(p, 1, Len(p) - 1)) \o <<"/", p[Len(p)]>>

RECURSIVE CommonPrefixLen(_, _, _)
CommonPrefixLen(a, b, n) ==
    IF n < Len(a) /\ n < Len(b) /\ a[n + 1] = b[n + 1]
    THEN CommonPrefixLen(a, b, n + 1) ELSE n

\* get_relative_path(base, target): one ".." per component of base below
\* the common prefix, then the rest of target
get_relative_path(base, target) ==
    LET n == CommonPrefixLen(base, target, 0)
        path_tail == IF n = Len(target) THEN <<".">>
                     ELSE SubSeq(target, n + 1, Len(target))
    IN [k \in 1..(Len(base) - n) |-> ".."] \o path_tail

\* The text of a relative path
RECURSIVE RelText(_)
RelText(p) == IF Len(p) <= 1 THEN p
              ELSE RelText(SubSeq(p, 1, Len(p) - 1)) \o <<"/", p[Len(p)]>>

\* os.path.join('$(BASE_DIR)', get_relative_path(get_basedir(), oot_path))
named_path(oot_path) ==
    <<"$(BASE_DIR)", "/">> \o RelText(get_relative_path(get_basedir, oot_path))

\* One formatted template of the registry
OotChunk(tmpl, arg) == [tmpl |-> tmpl, arg |-> arg]

OOT_SRCS_FILE_HDR == OotChunk("OOT_SRCS_FILE_HDR", <<>>)
OOT_DIR_TMPL(oot_dir) == OotChunk("OOT_DIR_TMPL", oot_dir)
OOT_INC_TMPL == OotChunk("OOT_INC_TMPL", <<>>)
OOT_SRCS_TMPL(sources) == OotChunk("OOT_SRCS_TMPL", sources)

\* What a legacy rfnoc/fpga-src/Makefile.srcs holds
LegacySrcs == <<"SOURCES_PATH", "a.v", " ", "SOURCES_PATH", "b.v", "\n">>

\* Lines 302-313: the directory a reference resolves to, as a sequence of
\* one path, or the empty sequence when no RFNoC module is found
ResolveRef(currpath) ==
    IF isdir(currpath) /\ basename(currpath) = "rfnoc" THEN <<currpath>>
    ELSE IF isdir(currpath \o <<"rfnoc">>) THEN <<currpath \o <<"rfnoc">>>>
    ELSE IF isfile(currpath \o <<"Makefile.inc">>) THEN <<currpath>>
    ELSE <<>>

\* Lines 318-332: which of the makefiles of oot_path is found first
Strategy(oot_path) ==
    IF isfile(oot_path \o <<"Makefile.inc">>) THEN "inc"
    ELSE IF isfile(oot_path \o <<"rfnoc", "Makefile.inc">>) THEN "inc"
    ELSE IF isfile(oot_path \o <<"rfnoc", "fpga-src", "Makefile.srcs">>) THEN "srcs"
    ELSE "none"

\* InList without the membership test
NeverInList(oot_path, lst) == FALSE

\* if oot_path not in oot_dir_list
InList(oot_path, lst) == \E k \in 1..Len(lst) : lst[k] = oot_path

\* curr_srcs.replace('SOURCES_PATH', os.path.join(oot_path, 'rfnoc', 'fpga-src', ''))
LegacySources(oot_path) ==
    str_replace(LegacySrcs, <<"SOURCES_PATH">>,
                PathText(oot_path \o <<"rfnoc", "fpga-src">>) \o <<"/">>)

\* One iteration of the for loop (lines 300-332) in which every read
\* succeeds: the list, the file content and the prints it leaves
OotIter(dirs, lst, data) ==
    LET currpath == abspath(dirs)
        res == ResolveRef(currpath)
    IN IF res = <<>>
       THEN [lst |-> lst, data |-> data,
             out |-> << <<"No RFNoC module found at ", currpath>> >>]
       ELSE LET oot_path == res[1]
                decl == Append(data, OOT_DIR_TMPL(named_path(oot_path)))
            IN IF InList(oot_path, lst)
               THEN [lst |-> lst, data |-> data, out |-> <<>>]
               ELSE IF Strategy(oot_path) = "inc"
               THEN [lst |-> Append(lst, oot_path),
                     data |-> Append(decl, OOT_INC_TMPL), out |-> <<>>]
               ELSE IF Strategy(oot_path) = "srcs"
               THEN [lst |-> Append(lst, oot_path),
                     data |-> Append(decl, OOT_SRCS_TMPL(LegacySources(oot_path))),
                     out |-> <<>>]
               ELSE [lst |-> Append(lst, oot_path), data |-> decl,
                     out |-> << <<"No valid makefile found at ", currpath>> >>]

\* Lines 293-298: incfile = open(dest_srcs_file, 'w'); the header
OotOpen ==
    /\ pc = "create_oot_include"
    /\ oot_dir_list' = <<>>
    /\ incfile' = FileOf(<<OOT_SRCS_FILE_HDR>>)
    /\ oot_i' = 1
    /\ pc' = "oot_loop"
    /\ UNCHANGED <<exit_code, stdout, blocks, max_num_blocks, fill_with_fifos,
                   vfile, auto_inst_file, auto_inst_pre>>
    /\ UNCHANGED <<include_dirs, fs_dirs, fs_files, incfile_pre>>
    /\ UNCHANGED <<patchVars, srcVars>>

\* One iteration of the loop over include_dirs
OotDir ==
    /\ pc = "oot_loop"
    /\ ~include_dirs.none
    /\ oot_i <= Len(include_dirs.dirs)
    /\ LET r == OotIter(include_dirs.dirs[oot_i], oot_dir_list, incfile.data)
       IN /\ oot_dir_list' = r.lst
          /\ incfile' = FileOf(r.data)
          /\ stdout' = stdout \o r.out
    /\ oot_i' = oot_i + 1
    /\ UNCHANGED <<pc, exit_code, blocks, max_num_blocks, fill_with_fifos,
                   vfile, auto_inst_file, auto_inst_pre>>
    /\ UNCHANGED <<include_dirs, fs_dirs, fs_files, incfile_pre>>
    /\ UNCHANGED <<patchVars, srcVars>>

\* An iteration that reaches line 327 and whose open() or read() of the
\* legacy Makefile.srcs raises: the declaration of line 317 is written,
\* the exception ends the run
OotDirReadFails ==
    /\ pc = "oot_loop"
    /\ ~include_dirs.none
    /\ oot_i <= Len(include_dirs.dirs)
    /\ LET res == ResolveRef(abspath(include_dirs.dirs[oot_i]))
       IN /\ res # <<>>
          /\ ~InList(res[1], oot_dir_list)
          /\ Strategy(res[1]) = "srcs"
          /\ oot_dir_list' = Append(oot_dir_list, res[1])
          /\ incfile' = FileOf(Append(incfile.data, OOT_DIR_TMPL(named_path(res[1]))))
    /\ pc' = "abort"
    /\ UNCHANGED <<exit_code, stdout, blocks, max_num_blocks, fill_with_fifos,
                   vfile, auto_inst_file, auto_inst_pre>>
    /\ UNCHANGED <<include_dirs, fs_dirs, fs_files, oot_i, incfile_pre>>
    /\ UNCHANGED <<patchVars, srcVars>>

\* Line 333: incfile.close(); main() goes on to build() or returns
OotClose ==
    /\ pc = "oot_loop"
    /\ include_dirs.none \/ oot_i > Len(include_dirs.dirs)
    /\ pc' = "build"
    /\ UNCHANGED <<exit_code, stdout, blocks, max_num_blocks, fill_with_fifos,
                   vfile, auto_inst_file, auto_inst_pre>>
    /\ UNCHANGED ootVars
    /\ UNCHANGED <<patchVars, srcVars>>

\* The directories and files of the model
DirM == <<"oot", "m">>
DirMR == <<"oot", "m", "rfnoc">>
DirMRR == <<"oot", "m", "rfnoc", "rfnoc">>
DirMRRF == <<"oot", "m", "rfnoc", "rfnoc", "fpga-src">>
DirX == <<"oot", "x">>

CandDirs == {DirM, DirMR, DirMRR, DirMRRF, DirX}

CandFiles == {DirM \o <<"Makefile.inc">>, DirMR \o <<"Makefile.inc">>,
              DirMRR \o <<"Makefile.inc">>, DirMRRF \o <<"Makefile.srcs">>,
              DirX \o <<"Makefile.inc">>}

Parent(p) == SubSeq(p, 1, Len(p) - 1)

\* Every directory and file lies in a directory that exists
FsConsistent(ds, fs) ==
    /\ \A d \in ds : Parent(d) \in ds \cup {Cwd}
    /\ \A f \in fs : Parent(f) \in ds

\* The directory references of the model, relative to the working directory
Refs == {<<"m">>, <<"m", "rfnoc">>, <<".", "m">>, <<"x">>}

\* A registry left by an earlier run that registered /oot/m/rfnoc
OldRegistry == <<OOT_SRCS_FILE_HDR, OOT_DIR_TMPL(named_path(DirMR)), OOT_INC_TMPL>>

\* main() has run file_generator for the request list [fft]
GenDone ==
    LET r == create_auto_inst(<< <<"fft">> >>, DefaultParams(<< <<"fft">> >>), 1, FALSE)
    IN /\ pc = "create_oot_include"
       /\ exit_code = -1
       /\ stdout = Append(r.out, <<"Adding CE instantiation file", <<>> >>)
       /\ blocks = << <<"fft">> >>
       /\ max_num_blocks = 1
       /\ fill_with_fifos = FALSE
       /\ vfile = r.text
       /\ auto_inst_file = FileOf(r.text)
       /\ auto_inst_pre \in {NoFile, FileOf(OldVfile)}

InitOot ==
    /\ GenDone
    /\ PatchIdle
    /\ SrcIdle
    /\ include_dirs \in {[none |-> TRUE, dirs |-> <<>>]}
                        \cup {[none |-> FALSE, dirs |-> d] : d \in SeqsUpTo(Refs, MaxRefs)}
    /\ fs_dirs \in SUBSET CandDirs
    /\ fs_files \in SUBSET CandFiles
    /\ FsConsistent(fs_dirs, fs_files)
    /\ oot_dir_list = <<>>
    /\ oot_i = 0
    /\ incfile \in {NoFile, FileOf(OldRegistry)}
    /\ incfile_pre = incfile

NextOot == OotOpen \/ OotDir \/ OotDirReadFails \/ OotClose

SpecOot == InitOot /\ [][NextOot]_vars

-----------------------------------------------------------------------------
(* Properties of the registrar, checked under SpecOot.                     *)

\* The registry has been opened for writing by this run
RegistryOpened == pc \in {"oot_loop", "build", "abort"}

\* The positions of the registry that declare directory d
Declarations(data, d) ==
    {k \in 1..Len(data) : data[k] = OOT_DIR_TMPL(named_path(d))}

IsStrategy(c) == c.tmpl \in {"OOT_INC_TMPL", "OOT_SRCS_TMPL"}

\* C7: whatever references are given and whatever the registry held
\* before, the registry written by the run holds at most one declaration
\* per canonical directory: no two declaration lines name the same
\* directory.
C7_OneDeclarationPerDirectory ==
    RegistryOpened =>
        /\ \A d \in CandDirs : Cardinality(Declarations(incfile.data, d)) <= 1
        /\ \A j, k \in 1..Len(incfile.data) :
              (/\ j # k
               /\ incfile.data[j].tmpl = "OOT_DIR_TMPL"
               /\ incfile.data[k].tmpl = "OOT_DIR_TMPL")
              => incfile.data[j].arg # incfile.data[k].arg

C7_Witness ==
    /\ pc = "build"
    /\ include_dirs.dirs = << <<"m">>, <<"m", "rfnoc">> >>
    /\ incfile_pre = FileOf(OldRegistry)
    /\ oot_dir_list = <<DirMR>>
    /\ Cardinality(Declarations(incfile.data, DirMR)) = 1

\* The registry a run writes when it runs to its end
RECURSIVE OotRun(_, _, _)
OotRun(i, lst, data) ==
    IF include_dirs.none \/ i > Len(include_dirs.dirs) THEN data
    ELSE LET r == OotIter(include_dirs.dirs[i], lst, data)
         IN OotRun(i + 1, r.lst, r.data)

CompleteRegistry == OotRun(1, <<>>, <<OOT_SRCS_FILE_HDR>>)

\* C9: when a run has ended, by returning or by a fatal error, each output
\* file holds either its content from before the run or its complete
\* content of this run.
C9_NoPartialWrites ==
    pc \in {"build", "abort"} =>
        /\ auto_inst_file \in {auto_inst_pre, FileOf(vfile)}
        /\ incfile \in {incfile_pre, FileOf(CompleteRegistry)}

\* C10: in the written registry every declaration line is followed by
\* exactly one include strategy, and a resolved directory with neither an
\* include manifest nor a legacy source list has no declaration line.
C10_DeclarationHasOneStrategy ==
    pc = "build" =>
        LET data == incfile.data IN
        /\ \A k \in 1..Len(data) :
              data[k].tmpl = "OOT_DIR_TMPL" =>
                  /\ k < Len(data)
                  /\ IsStrategy(data[k + 1])
                  /\ (k + 2 <= Len(data) => ~IsStrategy(data[k + 2]))
        /\ \A i \in 1..Len(include_dirs.dirs) :
              LET res == ResolveRef(abspath(include_dirs.dirs[i])) IN
              (res # <<>> /\ Strategy(res[1]) = "none")
              => Declarations(data, res[1]) = {}

-----------------------------------------------------------------------------
(* append_item_into_file: the second registration path.                    *)
(*                                                                         *)
(* The tokens of the makefile texts: "RFNOC_OOT_SRCS = ",                  *)
(* "RFNOC_OOT_SRCS += ", "$(addprefix ", "SOURCES_PATH", ", ", "\\" (one   *)
(* backslash), "\n", ")", " ", "/", directory names and file names.  Both  *)
(* patterns of the function go through re.escape, so they match their     *)
(* own text and nothing else.                                             *)

\* longest list of directories
MaxSrcDirs == 2
\* calls made on one manifest
MaxRuns == 2

\* os.path.join(directory, ''): the directory with one trailing separator
JoinEmpty(directory) ==
    IF directory # <<>> /\ directory[Len(directory)] = "/" THEN directory
    ELSE directory \o <<"/">>

\* file.readlines(): the lines of a text, each with its line break
RECURSIVE LinesFrom(_, _, _)
LinesFrom(s, i, cur) ==
    IF i > Len(s) THEN (IF cur = <<>> THEN <<>> ELSE <<cur>>)
    ELSE IF s[i] = "\n" THEN <<Append(cur, s[i])>> \o LinesFrom(s, i + 1, <<>>)
    ELSE LinesFrom(s, i + 1, Append(cur, s[i]))

readfile(s) == LinesFrom(s, 1, <<>>)

\* "".join(list)
RECURSIVE JoinAll(_)
JoinAll(lst) == IF lst = <<>> THEN <<>> ELSE Head(lst) \o JoinAll(Tail(lst))

\* re.findall(re.escape(text), s): one copy of text per non-overlapping
\* occurrence
RECURSIVE FindLiteralFrom(_, _, _)
FindLiteralFrom(text, s, i) ==
    IF i + Len(text) - 1 > Len(s) THEN <<>>
    ELSE IF SubSeq(s, i, i + Len(text) - 1) = text
    THEN <<text>> \o FindLiteralFrom(text, s, i + Len(text))
    ELSE FindLiteralFrom(text, s, i + 1)

re_findall_escaped(text, s) == FindLiteralFrom(text, s, 1)

\* get_oot_srcs_list(include_dir), lines 344-350
get_oot_srcs_list(dirs) ==
    LET oot_srcs_list == readfile(oot_srcs_file)
    IN [k \in 1..Len(oot_srcs_list) |->
           str_replace(oot_srcs_list[k], <<"SOURCES_PATH">>, dirs)]

\* checkdir_v finds *.v files in the directory
HasVerilog(dirs) == dirs[1] \in verilog_dirs

\* [item for item in oot_srcs_list if item not in dest_srcs_list]
NotInDest(oot_srcs_list, dest_srcs_list) ==
    SelectSeq(oot_srcs_list, LAMBDA item : item \notin Range(dest_srcs_list))

\* The for loop of lines 354-382 from its i-th directory on, m being the
\* manifest on disk: the manifest it leaves and how the call ends
\* ("done", "return" at line 370, or "exit" in checkdir_v)
RECURSIVE SrcLoop(_, _, _)
SrcLoop(include_dir, i, m) ==
    IF i > Len(include_dir) THEN [manifest |-> m, end |-> "done"]
    ELSE LET dirs == JoinEmpty(include_dir[i]) IN
         IF ~HasVerilog(dirs) THEN [manifest |-> m, end |-> "exit"]
         ELSE LET oot_srcs_list == get_oot_srcs_list(dirs)
                  dest_srcs_list == readfile(m)
                  prefixpattern == <<"$(addprefix ">> \o dirs \o <<", ", "\\", "\n">>
                  pattern == <<"RFNOC_OOT_SRCS = ", "\\", "\n">>
                  oldfile == m
                  prefixlines == re_findall_escaped(prefixpattern, oldfile)
                  lines == re_findall_escaped(pattern, oldfile)
              IN IF Len(prefixlines) = 0
                 THEN IF Len(lines) = 0
                      THEN [manifest |-> m, end |-> "return"]
                      ELSE LET last_line == lines[Len(lines)]
                               srcs == JoinAll(oot_srcs_list)
                           IN SrcLoop(include_dir, i + 1,
                                      str_replace(oldfile, last_line, last_line \o srcs))
                 ELSE LET last_line == prefixlines[Len(prefixlines)]
                          srcs == JoinAll(NotInDest(oot_srcs_list, dest_srcs_list))
                      IN SrcLoop(include_dir, i + 1,
                                 str_replace(oldfile, last_line, last_line \o srcs))

\* One call append_item_into_file(device, include_dir)
append_item_into_file ==
    /\ Len(manifest_hist) < MaxRuns
    /\ LET r == IF src_include_dir.none THEN [manifest |-> manifest, end |-> "done"]
                ELSE SrcLoop(src_include_dir.dirs, 1, manifest)
       IN /\ manifest' = r.manifest
          /\ src_exit' = IF r.end = "exit" THEN 0 ELSE -1
    /\ manifest_hist' = Append(manifest_hist, manifest)
    /\ UNCHANGED <<src_include_dir, oot_srcs_file, verilog_dirs>>
    /\ UNCHANGED <<genVars, patchVars, ootVars>>

\* The texts of the model
Anchor == <<"RFNOC_OOT_SRCS = ", "\\", "\n">>

\* A source list with a per-directory prefix block, and two plain ones
SrcsFiles ==
    {<<"RFNOC_OOT_SRCS += ", "$(addprefix ", "SOURCES_PATH", ", ", "\\", "\n",
       "a.v", ")", "\n">>,
     <<"SOURCES_PATH", "a.v", " ", "\\", "\n", "SOURCES_PATH", "b.v", " ", "\\", "\n">>,
     <<"SOURCES_PATH", "a.v", " ", "\\", "\n">>}

\* A manifest without the anchor, with the anchor alone, with the anchor
\* and a line after it, and with a prefix block of directory d1
Manifests ==
    {<<"#", "\n">>,
     Anchor,
     Anchor \o <<"\n">>,
     Anchor \o <<"$(addprefix ", "d1", "/", ", ", "\\", "\n", "b.v", ")", "\n">>}

SrcRefs == {<<"d1">>, <<"d1", "/">>, <<"d2">>}

InitSrc ==
    /\ GenIdle
    /\ PatchIdle
    /\ OotIdle
    /\ src_include_dir \in {[none |-> TRUE, dirs |-> <<>>]}
           \cup {[none |-> FALSE, dirs |-> d] : d \in SeqsUpTo(SrcRefs, MaxSrcDirs)}
    /\ oot_srcs_file \in SrcsFiles
    /\ verilog_dirs \in SUBSET {"d1", "d2"}
    /\ manifest \in Manifests
    /\ manifest_hist = <<>>
    /\ src_exit = -1

NextSrc == append_item_into_file

SpecSrc == InitSrc /\ [][NextSrc]_vars

-----------------------------------------------------------------------------
(* Properties of the second registration path, checked under SpecSrc.      *)

\* How many lines of the text equal the entry
LineCount(entry, s) ==
    Cardinality({k \in 1..Len(readfile(s)) : readfile(s)[k] = entry})

\* C8: after one or more calls with the same directory on the same
\* manifest, each source entry of the directory occurs at most once in
\* the manifest, and a repeated call leaves the manifest as the first
\* call left it.
C8_EntriesRegisteredOnce ==
    (/\ ~src_include_dir.none
     /\ Len(src_include_dir.dirs) = 1
     /\ Len(manifest_hist) >= 1)
    => LET entries == get_oot_srcs_list(JoinEmpty(src_include_dir.dirs[1]))
       IN /\ \A k \in 1..Len(entries) : LineCount(entries[k], manifest) <= 1
          /\ (Len(manifest_hist) = 2 => manifest = manifest_hist[2])

-----------------------------------------------------------------------------
(* The filler block of the generated text, checked under SpecGen.          *)

\* The positions of the text that hold the loopback-filler block
FillerChunks(text) == {k \in 1..Len(text) : text[k].tmpl = "FILL_FIFO_TMPL"}

\* C11 as stated: the filler block is in the output exactly when
\* fill_with_fifos is set and the slot count is greater than len(R).
C11_FillerOnlyWhenSlotsRemain ==
    Generated =>
        (FillerChunks(vfile) # {}
         <=> (fill_with_fifos /\ DeclaredNumCe(vfile) > Len(blocks)))

\* C11 amended: the filler block is in the output exactly when
\* fill_with_fifos is set; it is then the last block of the text, once,
\* with its loop starting at len(R), and when len(R) equals the capacity
\* its loop binds no index.
C11_FillerWheneverFillSet ==
    Generated =>
        /\ (FillerChunks(vfile) # {} <=> fill_with_fifos)
        /\ fill_with_fifos =>
              /\ FillerChunks(vfile) = {Len(vfile)}
              /\ vfile[Len(vfile)].n = Len(blocks)
              /\ (Len(blocks) = max_num_blocks
                  => BoundBy(vfile[Len(vfile)], DeclaredNumCe(vfile)) = {})
              /\ (Len(blocks) < max_num_blocks
                  => BoundBy(vfile[Len(vfile)], DeclaredNumCe(vfile))
                     = Len(blocks)..(max_num_blocks - 1))

C11_Witness ==
    /\ pc = "create_oot_include"
    /\ fill_with_fifos
    /\ Len(blocks) = 2
    /\ max_num_blocks = 2
    /\ FillerChunks(auto_inst_file.data) = {4}
    /\ BoundBy(auto_inst_file.data[4], DeclaredNumCe(auto_inst_file.data)) = {}

====
